---- MODULE Spec2Model ----
(***************************************************************************)
(* Flow queue of src/src/flow-queue.c: an intrusive doubly linked list of  *)
(* Flow records (lnext/lprev) with a top, a bot and a len per queue, and a *)
(* mutex per queue.  FlowEnqueue links at top without locking, FlowDequeue *)
(* locks the queue and removes bot, FlowRequeue unlinks a record from a    *)
(* source queue and appends it at the bot of a destination queue.          *)
(*                                                                         *)
(* Each function is modelled as the sequence of its lock operations and of *)
(* the critical sections between them; a thread's position is pc[t] and    *)
(* its arguments and locals are frame[t].                                  *)
(*                                                                         *)
(* ERF file reader of src/src/source-erf-file.c: ReceiveErfFile reads a    *)
(* record header and its payload from a stream, sets the packet's length   *)
(* and time and counts packets and bytes.                                  *)
(***************************************************************************)
EXTENDS Integers, Sequences, FiniteSets, TLC

\* ---------------------------------------------------------------- bounds
NumFlows == 3
NumQueues == 2
NumThreads == 2
MaxCalls == 4
MaxFifo == 6
MaxRecords == 2

\* ------------------------------------------------------------- constants
NULL == 0
FREE == 0

Flows == 1 .. NumFlows
Queues == 1 .. NumQueues
Threads == 1 .. NumThreads
FlowOrNull == Flows \cup {NULL}
QueueOrNull == Queues \cup {NULL}

VARIABLES top, bot, len, lnext, lprev, mutex_q, pc, frame, ncalls, ins, outs, log,
          arrival, erf, etv, p, rx, seen

heap == <<top, bot, len, lnext, lprev>>
ghost == <<ncalls, ins, outs, log, arrival>>
erfstate == <<erf, etv, p, rx, seen>>
vars == <<top, bot, len, lnext, lprev, mutex_q, pc, frame, ncalls, ins, outs, log,
          arrival, erf, etv, p, rx, seen>>

\* ------------------------------------------------------------ list walks
\* The records met from r by following link, r first, at most n of them.
RECURSIVE Walk(_, _, _)
Walk(link, r, n) ==
    IF r = NULL \/ n = 0 THEN <<>> ELSE <<r>> \o Walk(link, link[r], n - 1)

Range(s) == {s[i] : i \in 1 .. Len(s)}
Reverse(s) == [i \in 1 .. Len(s) |-> s[Len(s) + 1 - i]]

\* top to bot along lnext, and bot to top along lprev; one step more than
\* there are records, so that a cycle shows as a walk that is too long.
Fwd(q) == Walk(lnext, top[q], NumFlows + 1)
Bwd(q) == Walk(lprev, bot[q], NumFlows + 1)
InQueue(f, q) == f \in Range(Fwd(q)) \cup Range(Bwd(q))
\* q is the queue f is linked into, or NULL when f is linked into none.
IsHolder(f, q) ==
    IF q = NULL THEN \A r \in Queues : ~InQueue(f, r) ELSE InQueue(f, q)

\* ----------------------------------------------------------------- frames
NoFrame == [f |-> NULL, srcq |-> NULL, dstq |-> NULL, need_srclock |-> 0, q |-> NULL]
AllIdle == \A t \in Threads : pc[t] = "idle"

\* ------------------------------------------------------------- FlowQueueInit
Init ==
    /\ top = [q \in Queues |-> NULL]
    /\ bot = [q \in Queues |-> NULL]
    /\ len = [q \in Queues |-> 0]
    /\ lnext = [f \in Flows |-> NULL]
    /\ lprev = [f \in Flows |-> NULL]
    /\ mutex_q = [q \in Queues |-> FREE]
    /\ pc = [t \in Threads |-> "idle"]
    /\ frame = [t \in Threads |-> NoFrame]
    /\ ncalls = 0
    /\ ins = [q \in Queues |-> <<>>]
    /\ outs = [q \in Queues |-> <<>>]
    /\ log = <<>>
    /\ arrival = [q \in Queues |-> <<>>]
    /\ erf = "open"
    /\ etv = [pkts |-> 0, bytes |-> 0]
    /\ p = [pktlen |-> 0, datalink |-> "none", ts |-> [sec |-> 0, usec |-> 0]]
    /\ rx = [at |-> "idle", cause |-> "none", ret |-> "none", msg |-> "", stop |-> FALSE,
             type |-> 0, ts |-> [sec |-> 0, frh |-> 0, frl |-> 0],
             rlen |-> 0, wlen |-> 0, want |-> <<0, 0, 0, 0>>,
             pre |-> [pkts |-> 0, bytes |-> 0]]
    /\ seen = {}

\* ------------------------------------------------------------------ mutex
SCMutexLock(t, q) ==
    /\ mutex_q[q] = FREE
    /\ mutex_q' = [mutex_q EXCEPT ![q] = t]

SCMutexUnlock(t, q) ==
    mutex_q' = [mutex_q EXCEPT ![q] = FREE]


\* FlowEnqueue linking the record after bot instead of before top.
EnqueueHeapAtBot(q, f) ==
    IF top[q] # NULL
    THEN [top |-> top,
          bot |-> [bot EXCEPT ![q] = f],
          len |-> [len EXCEPT ![q] = @ + 1],
          lnext |-> [lnext EXCEPT ![bot[q]] = f],
          lprev |-> [lprev EXCEPT ![f] = bot[q]]]
    ELSE [top |-> [top EXCEPT ![q] = f],
          bot |-> [bot EXCEPT ![q] = f],
          len |-> [len EXCEPT ![q] = @ + 1],
          lnext |-> lnext,
          lprev |-> lprev]

\* ---------------------------------------------------- the critical sections
\* Each gives the heap after the statements, executed in the code's order.
\* len is kept as an integer: a value below 0 stands for the unsigned
\* counter having wrapped below zero.
EnqueueHeap(q, f) ==
    IF top[q] # NULL
    THEN [top |-> [top EXCEPT ![q] = f],
          bot |-> bot,
          len |-> [len EXCEPT ![q] = @ + 1],
          lnext |-> [lnext EXCEPT ![f] = top[q]],
          lprev |-> [lprev EXCEPT ![top[q]] = f]]
    ELSE [top |-> [top EXCEPT ![q] = f],
          bot |-> [bot EXCEPT ![q] = f],
          len |-> [len EXCEPT ![q] = @ + 1],
          lnext |-> lnext,
          lprev |-> lprev]

\* FlowDequeue's removal of f = q->bot, f not NULL.
DequeueHeap(q) ==
    LET f == bot[q]
        more == lprev[f] # NULL
        bot1 == IF more THEN [bot EXCEPT ![q] = lprev[f]] ELSE [bot EXCEPT ![q] = NULL]
        lnext1 == IF more THEN [lnext EXCEPT ![bot1[q]] = NULL] ELSE lnext
    IN  [top |-> IF more THEN top ELSE [top EXCEPT ![q] = NULL],
         bot |-> bot1,
         len |-> [len EXCEPT ![q] = @ - 1],
         lnext |-> [lnext1 EXCEPT ![f] = NULL],
         lprev |-> [lprev EXCEPT ![f] = NULL]]


\* The unlink without "f->lnext = NULL; f->lprev = NULL".
UnlinkHeapKeepLinks(q, f) ==
    LET lnext1 == IF lprev[f] # NULL THEN [lnext EXCEPT ![lprev[f]] = lnext[f]] ELSE lnext
        lprev1 == IF lnext1[f] # NULL THEN [lprev EXCEPT ![lnext1[f]] = lprev[f]] ELSE lprev
    IN  [top |-> IF top[q] = f THEN [top EXCEPT ![q] = lnext[f]] ELSE top,
         bot |-> IF bot[q] = f THEN [bot EXCEPT ![q] = lprev[f]] ELSE bot,
         len |-> [len EXCEPT ![q] = @ - 1],
         lnext |-> lnext1,
         lprev |-> lprev1]

\* The unlink without "srcq->top = f->lnext".
UnlinkHeapKeepTop(q, f) ==
    LET lnext1 == IF lprev[f] # NULL THEN [lnext EXCEPT ![lprev[f]] = lnext[f]] ELSE lnext
        lprev1 == IF lnext1[f] # NULL THEN [lprev EXCEPT ![lnext1[f]] = lprev[f]] ELSE lprev
    IN  [top |-> top,
         bot |-> IF bot[q] = f THEN [bot EXCEPT ![q] = lprev[f]] ELSE bot,
         len |-> [len EXCEPT ![q] = @ - 1],
         lnext |-> [lnext1 EXCEPT ![f] = NULL],
         lprev |-> [lprev1 EXCEPT ![f] = NULL]]

\* The unlink without "srcq->bot = f->lprev".
UnlinkHeapKeepBot(q, f) ==
    LET lnext1 == IF lprev[f] # NULL THEN [lnext EXCEPT ![lprev[f]] = lnext[f]] ELSE lnext
        lprev1 == IF lnext1[f] # NULL THEN [lprev EXCEPT ![lnext1[f]] = lprev[f]] ELSE lprev
    IN  [top |-> IF top[q] = f THEN [top EXCEPT ![q] = lnext[f]] ELSE top,
         bot |-> bot,
         len |-> [len EXCEPT ![q] = @ - 1],
         lnext |-> [lnext1 EXCEPT ![f] = NULL],
         lprev |-> [lprev1 EXCEPT ![f] = NULL]]

\* The unlink without "f->lprev->lnext = f->lnext".
UnlinkHeapNoSplicePrev(q, f) ==
    LET lprev1 == IF lnext[f] # NULL THEN [lprev EXCEPT ![lnext[f]] = lprev[f]] ELSE lprev
    IN  [top |-> IF top[q] = f THEN [top EXCEPT ![q] = lnext[f]] ELSE top,
         bot |-> IF bot[q] = f THEN [bot EXCEPT ![q] = lprev[f]] ELSE bot,
         len |-> [len EXCEPT ![q] = @ - 1],
         lnext |-> [lnext EXCEPT ![f] = NULL],
         lprev |-> [lprev1 EXCEPT ![f] = NULL]]

\* The unlink without "f->lnext->lprev = f->lprev".
UnlinkHeapNoSpliceNext(q, f) ==
    LET lnext1 == IF lprev[f] # NULL THEN [lnext EXCEPT ![lprev[f]] = lnext[f]] ELSE lnext
    IN  [top |-> IF top[q] = f THEN [top EXCEPT ![q] = lnext[f]] ELSE top,
         bot |-> IF bot[q] = f THEN [bot EXCEPT ![q] = lprev[f]] ELSE bot,
         len |-> [len EXCEPT ![q] = @ - 1],
         lnext |-> [lnext1 EXCEPT ![f] = NULL],
         lprev |-> [lprev EXCEPT ![f] = NULL]]

\* FlowRequeue's "remove from old queue".
UnlinkHeap(q, f) ==
    LET lnext1 == IF lprev[f] # NULL THEN [lnext EXCEPT ![lprev[f]] = lnext[f]] ELSE lnext
        lprev1 == IF lnext1[f] # NULL THEN [lprev EXCEPT ![lnext1[f]] = lprev[f]] ELSE lprev
    IN  [top |-> IF top[q] = f THEN [top EXCEPT ![q] = lnext[f]] ELSE top,
         bot |-> IF bot[q] = f THEN [bot EXCEPT ![q] = lprev[f]] ELSE bot,
         len |-> [len EXCEPT ![q] = @ - 1],
         lnext |-> [lnext1 EXCEPT ![f] = NULL],
         lprev |-> [lprev1 EXCEPT ![f] = NULL]]


\* The append linking the record before top, as FlowEnqueue does.
AppendHeapAtTop(q, f) ==
    LET lnext1 == [lnext EXCEPT ![f] = top[q]]
        lprev1 == IF top[q] # NULL THEN [lprev EXCEPT ![top[q]] = f] ELSE lprev
    IN  [top |-> [top EXCEPT ![q] = f],
         bot |-> IF bot[q] = NULL THEN [bot EXCEPT ![q] = f] ELSE bot,
         len |-> [len EXCEPT ![q] = @ + 1],
         lnext |-> lnext1,
         lprev |-> [lprev1 EXCEPT ![f] = NULL]]

\* The append without "dstq->len++".
AppendHeapNoLen(q, f) ==
    LET lprev1 == [lprev EXCEPT ![f] = bot[q]]
        lnext1 == IF lprev1[f] # NULL THEN [lnext EXCEPT ![lprev1[f]] = f] ELSE lnext
    IN  [top |-> IF top[q] = NULL THEN [top EXCEPT ![q] = f] ELSE top,
         bot |-> [bot EXCEPT ![q] = f],
         len |-> len,
         lnext |-> [lnext1 EXCEPT ![f] = NULL],
         lprev |-> lprev1]

\* The append without "f->lprev->lnext = f".
AppendHeapNoNext(q, f) ==
    [top |-> IF top[q] = NULL THEN [top EXCEPT ![q] = f] ELSE top,
     bot |-> [bot EXCEPT ![q] = f],
     len |-> [len EXCEPT ![q] = @ + 1],
     lnext |-> [lnext EXCEPT ![f] = NULL],
     lprev |-> [lprev EXCEPT ![f] = bot[q]]]

\* FlowRequeue's "add to new queue (append)".
AppendHeap(q, f) ==
    LET lprev1 == [lprev EXCEPT ![f] = bot[q]]
        lnext1 == IF lprev1[f] # NULL THEN [lnext EXCEPT ![lprev1[f]] = f] ELSE lnext
    IN  [top |-> IF top[q] = NULL THEN [top EXCEPT ![q] = f] ELSE top,
         bot |-> [bot EXCEPT ![q] = f],
         len |-> [len EXCEPT ![q] = @ + 1],
         lnext |-> [lnext1 EXCEPT ![f] = NULL],
         lprev |-> lprev1]

SetHeap(h) ==
    /\ top' = h.top
    /\ bot' = h.bot
    /\ len' = h.len
    /\ lnext' = h.lnext
    /\ lprev' = h.lprev

Goto(t, label) == pc' = [pc EXCEPT ![t] = label]
Return(t) ==
    /\ pc' = [pc EXCEPT ![t] = "idle"]
    /\ frame' = [frame EXCEPT ![t] = NoFrame]

\* --------------------------------------------------------------- the calls
\* A caller picks an operation and its arguments.  FlowEnqueue takes no lock:
\* its caller holds the queue's lock around it.  FlowRequeue with
\* need_srclock = 0 is called by a caller that holds srcq's lock.
CallEnqueue(t, q, f) ==
    /\ pc[t] = "idle"
    /\ IsHolder(f, NULL)
    /\ frame' = [frame EXCEPT ![t] = [NoFrame EXCEPT !.q = q, !.f = f]]
    /\ Goto(t, "eq_lock")
    /\ UNCHANGED <<heap, mutex_q>>

CallDequeue(t, q) ==
    /\ pc[t] = "idle"
    /\ frame' = [frame EXCEPT ![t] = [NoFrame EXCEPT !.q = q]]
    /\ Goto(t, "dq_lock")
    /\ UNCHANGED <<heap, mutex_q>>

CallRequeue(t, f, srcq, dstq, need_srclock) ==
    /\ pc[t] = "idle"
    /\ IsHolder(f, srcq)
    /\ frame' = [frame EXCEPT ![t] = [f |-> f, srcq |-> srcq, dstq |-> dstq,
                                      need_srclock |-> need_srclock, q |-> srcq]]
    /\ Goto(t, IF srcq # NULL /\ need_srclock = 0 THEN "rq_callerlock" ELSE "rq_srclock")
    /\ UNCHANGED <<heap, mutex_q>>

\* ------------------------------------------------------ FlowEnqueue's caller
EqLock(t) ==
    /\ pc[t] = "eq_lock"
    /\ SCMutexLock(t, frame[t].q)
    /\ Goto(t, "eq_body")
    /\ UNCHANGED <<heap, frame>>

FlowEnqueue(t) ==
    /\ pc[t] = "eq_body"
    /\ SetHeap(EnqueueHeap(frame[t].q, frame[t].f))
    /\ Goto(t, "eq_unlock")
    /\ UNCHANGED <<mutex_q, frame>>

EqUnlock(t) ==
    /\ pc[t] = "eq_unlock"
    /\ SCMutexUnlock(t, frame[t].q)
    /\ Return(t)
    /\ UNCHANGED heap

\* -------------------------------------------------------------- FlowDequeue
DqLock(t) ==
    /\ pc[t] = "dq_lock"
    /\ SCMutexLock(t, frame[t].q)
    /\ Goto(t, "dq_body")
    /\ UNCHANGED <<heap, frame>>


\* FlowDequeue waiting for a record while the queue is empty.
DqBodyWaits(t) ==
    /\ pc[t] = "dq_body"
    /\ bot[frame[t].q] # NULL
    /\ frame' = [frame EXCEPT ![t].f = bot[frame[t].q]]
    /\ SetHeap(DequeueHeap(frame[t].q))
    /\ Goto(t, "dq_unlock")
    /\ UNCHANGED mutex_q

\* Flow *f = q->bot; the removal when f is not NULL.
DqBody(t) ==
    /\ pc[t] = "dq_body"
    /\ frame' = [frame EXCEPT ![t].f = bot[frame[t].q]]
    /\ IF bot[frame[t].q] = NULL
       THEN UNCHANGED heap
       ELSE SetHeap(DequeueHeap(frame[t].q))
    /\ Goto(t, "dq_unlock")
    /\ UNCHANGED mutex_q

\* The unlock before either return; frame[t].f is the value returned.
DqUnlock(t) ==
    /\ pc[t] = "dq_unlock"
    /\ SCMutexUnlock(t, frame[t].q)
    /\ Return(t)
    /\ UNCHANGED heap

\* -------------------------------------------------------------- FlowRequeue

\* FlowRequeue without the source lock.
SrcLockNever(fr) == FALSE

SrcLockNeeded(fr) == fr.srcq # NULL /\ fr.need_srclock = 1

\* The source unlock without the test of need_srclock, and without the unlock.
SrcUnlockAlways(fr) == fr.srcq # fr.dstq
SrcUnlockNever(fr) == FALSE
\* The source unlock without the test "srcq != dstq".
SrcUnlockSameToo(fr) == fr.srcq # NULL /\ fr.need_srclock = 1

SrcUnlockNeeded(fr) == fr.srcq # fr.dstq /\ fr.need_srclock = 1

\* The destination lock without the test "srcq != dstq".
DstLockAlways(fr) == TRUE

DstLockNeeded(fr) == fr.srcq # fr.dstq

\* The caller of FlowRequeue(.., need_srclock = 0) taking srcq's lock.
RqCallerLock(t) ==
    /\ pc[t] = "rq_callerlock"
    /\ SCMutexLock(t, frame[t].srcq)
    /\ Goto(t, "rq_srclock")
    /\ UNCHANGED <<heap, frame>>

RqSrcLock(t) ==
    /\ pc[t] = "rq_srclock"
    /\ IF SrcLockNeeded(frame[t])
       THEN SCMutexLock(t, frame[t].srcq)
       ELSE UNCHANGED mutex_q
    /\ Goto(t, IF frame[t].srcq # NULL THEN "rq_unlink" ELSE "rq_dstlock")
    /\ UNCHANGED <<heap, frame>>

RqUnlink(t) ==
    /\ pc[t] = "rq_unlink"
    /\ SetHeap(UnlinkHeap(frame[t].srcq, frame[t].f))
    /\ Goto(t, "rq_srcunlock")
    /\ UNCHANGED <<mutex_q, frame>>

RqSrcUnlock(t) ==
    /\ pc[t] = "rq_srcunlock"
    /\ IF SrcUnlockNeeded(frame[t])
       THEN SCMutexUnlock(t, frame[t].srcq)
       ELSE UNCHANGED mutex_q
    /\ Goto(t, "rq_dstlock")
    /\ UNCHANGED <<heap, frame>>

RqDstLock(t) ==
    /\ pc[t] = "rq_dstlock"
    /\ IF DstLockNeeded(frame[t])
       THEN SCMutexLock(t, frame[t].dstq)
       ELSE UNCHANGED mutex_q
    /\ Goto(t, "rq_append")
    /\ UNCHANGED <<heap, frame>>

RqAppend(t) ==
    /\ pc[t] = "rq_append"
    /\ SetHeap(AppendHeap(frame[t].dstq, frame[t].f))
    /\ Goto(t, "rq_dstunlock")
    /\ UNCHANGED <<mutex_q, frame>>

\* The caller that passed need_srclock = 0 for distinct queues still holds
\* srcq's lock when FlowRequeue returns, and releases it.
CallerStillHolds(fr) ==
    fr.srcq # NULL /\ fr.need_srclock = 0 /\ fr.srcq # fr.dstq

RqDstUnlock(t) ==
    /\ pc[t] = "rq_dstunlock"
    /\ SCMutexUnlock(t, frame[t].dstq)
    /\ IF CallerStillHolds(frame[t])
       THEN Goto(t, "rq_callerunlock") /\ UNCHANGED frame
       ELSE Return(t)
    /\ UNCHANGED heap

RqCallerUnlock(t) ==
    /\ pc[t] = "rq_callerunlock"
    /\ SCMutexUnlock(t, frame[t].srcq)
    /\ Return(t)
    /\ UNCHANGED heap

\* ------------------------------------------- callers that keep the contract
\* Another call in progress names f.
Touched(f) == \E u \in Threads : pc[u] # "idle" /\ frame[u].f = f
\* A FlowDequeue on q has not yet taken its record.
MayPop(q) == \E u \in Threads : pc[u] \in {"dq_lock", "dq_body"} /\ frame[u].q = q
\* A FlowRequeue out of q has not yet unlinked its record.
MayUnlink(q) ==
    \E u \in Threads : /\ pc[u] \in {"rq_callerlock", "rq_srclock", "rq_unlink"}
                       /\ frame[u].srcq = q

\* Concurrent threads whose calls keep the preconditions: the record of a
\* FlowRequeue is still in srcq when it is unlinked, the record of a
\* FlowEnqueue is in no queue when it is linked.
\* A call counted against the bound on the number of calls.
Counted ==
    /\ ncalls < MaxCalls
    /\ ncalls' = ncalls + 1

Next ==
    \/ \E t \in Threads, q \in Queues, f \in Flows :
           /\ ~Touched(f)
           /\ CallEnqueue(t, q, f)
           /\ UNCHANGED <<ghost, erfstate>>
    \/ \E t \in Threads, q \in Queues :
           /\ ~MayUnlink(q)
           /\ CallDequeue(t, q)
           /\ UNCHANGED <<ghost, erfstate>>
    \/ \E t \in Threads, f \in Flows, srcq \in QueueOrNull, dstq \in Queues,
          need_srclock \in {0, 1} :
           /\ ~Touched(f)
           /\ srcq # NULL => ~MayPop(srcq)
           /\ CallRequeue(t, f, srcq, dstq, need_srclock)
           /\ UNCHANGED <<ghost, erfstate>>
    \/ \E t \in Threads : EqLock(t) /\ UNCHANGED <<ghost, erfstate>>
    \/ \E t \in Threads : FlowEnqueue(t) /\ UNCHANGED <<ghost, erfstate>>
    \/ \E t \in Threads : EqUnlock(t) /\ UNCHANGED <<ghost, erfstate>>
    \/ \E t \in Threads : DqLock(t) /\ UNCHANGED <<ghost, erfstate>>
    \/ \E t \in Threads : DqBody(t) /\ UNCHANGED <<ghost, erfstate>>
    \/ \E t \in Threads : DqUnlock(t) /\ UNCHANGED <<ghost, erfstate>>
    \/ \E t \in Threads : RqCallerLock(t) /\ UNCHANGED <<ghost, erfstate>>
    \/ \E t \in Threads : RqSrcLock(t) /\ UNCHANGED <<ghost, erfstate>>
    \/ \E t \in Threads : RqUnlink(t) /\ UNCHANGED <<ghost, erfstate>>
    \/ \E t \in Threads : RqSrcUnlock(t) /\ UNCHANGED <<ghost, erfstate>>
    \/ \E t \in Threads : RqDstLock(t) /\ UNCHANGED <<ghost, erfstate>>
    \/ \E t \in Threads : RqAppend(t) /\ UNCHANGED <<ghost, erfstate>>
    \/ \E t \in Threads : RqDstUnlock(t) /\ UNCHANGED <<ghost, erfstate>>
    \/ \E t \in Threads : RqCallerUnlock(t) /\ UNCHANGED <<ghost, erfstate>>

Spec == Init /\ [][Next]_vars

\* ------------------------------------------------- racing FlowRequeue calls
\* Threads that pick a record and name as source the queue that holds it
\* at the time of the call, whatever the other threads are doing.
NextRace ==
    \/ \E t \in Threads, f \in Flows, srcq \in QueueOrNull, dstq \in Queues :
           /\ CallRequeue(t, f, srcq, dstq, 1)
           /\ Counted /\ UNCHANGED <<ins, outs, log, arrival, erfstate>>
    \/ \E t \in Threads : RqSrcLock(t) /\ UNCHANGED <<ghost, erfstate>>
    \/ \E t \in Threads : RqUnlink(t) /\ UNCHANGED <<ghost, erfstate>>
    \/ \E t \in Threads : RqSrcUnlock(t) /\ UNCHANGED <<ghost, erfstate>>
    \/ \E t \in Threads : RqDstLock(t) /\ UNCHANGED <<ghost, erfstate>>
    \/ \E t \in Threads : RqAppend(t) /\ UNCHANGED <<ghost, erfstate>>
    \/ \E t \in Threads : RqDstUnlock(t) /\ UNCHANGED <<ghost, erfstate>>

SpecRace == Init /\ [][NextRace]_vars

\* ------------------------------------ FlowRequeue racing with FlowDequeue
\* A thread calls FlowRequeue(f, srcq, dstq, 1) for a record that is in srcq
\* when the call is made and that no other call names, while other threads
\* call FlowDequeue.  outs[q] lists the records FlowDequeue(q) returned; they
\* stay with the thread that got them.
Polled == UNION {Range(outs[q]) : q \in Queues}

NextPoll ==
    \/ \E t \in Threads, f \in Flows, srcq \in QueueOrNull, dstq \in Queues :
           /\ ~Touched(f)
           /\ f \notin Polled
           /\ CallRequeue(t, f, srcq, dstq, 1)
           /\ Counted /\ UNCHANGED <<ins, outs, log, arrival, erfstate>>
    \/ \E t \in Threads, q \in Queues :
           /\ CallDequeue(t, q)
           /\ Counted /\ UNCHANGED <<ins, outs, log, arrival, erfstate>>
    \/ \E t \in Threads : DqLock(t) /\ UNCHANGED <<ghost, erfstate>>
    \/ \E t \in Threads : DqBody(t) /\ UNCHANGED <<ghost, erfstate>>
    \/ \E t \in Threads :
           /\ DqUnlock(t)
           /\ outs' = IF frame[t].f = NULL THEN outs
                      ELSE [outs EXCEPT ![frame[t].q] = Append(@, frame[t].f)]
           /\ UNCHANGED <<ncalls, ins, log, arrival, erfstate>>
    \/ \E t \in Threads : RqSrcLock(t) /\ UNCHANGED <<ghost, erfstate>>
    \/ \E t \in Threads : RqUnlink(t) /\ UNCHANGED <<ghost, erfstate>>
    \/ \E t \in Threads : RqSrcUnlock(t) /\ UNCHANGED <<ghost, erfstate>>
    \/ \E t \in Threads : RqDstLock(t) /\ UNCHANGED <<ghost, erfstate>>
    \/ \E t \in Threads : RqAppend(t) /\ UNCHANGED <<ghost, erfstate>>
    \/ \E t \in Threads : RqDstUnlock(t) /\ UNCHANGED <<ghost, erfstate>>

SpecPoll == Init /\ [][NextPoll]_vars

\* The thread that makes the calls when they are made one at a time.
Caller == CHOOSE t \in Threads : \A u \in Threads : t <= u

\* ------------------------------------ FlowEnqueue and FlowDequeue, one by one
\* Calls made one at a time (exclusive access); ins[q] lists the records
\* given to FlowEnqueue(q, .), outs[q] those FlowDequeue(q) returned.
NextFifo ==
    \/ \E t \in {Caller}, q \in Queues, f \in Flows :
           /\ AllIdle /\ ncalls < MaxFifo
           /\ CallEnqueue(t, q, f)
           /\ ncalls' = ncalls + 1
           /\ ins' = [ins EXCEPT ![q] = Append(@, f)]
           /\ UNCHANGED <<outs, log, arrival, erfstate>>
    \/ \E t \in {Caller}, q \in Queues :
           /\ AllIdle /\ ncalls < MaxFifo
           /\ CallDequeue(t, q)
           /\ ncalls' = ncalls + 1
           /\ UNCHANGED <<ins, outs, log, arrival, erfstate>>
    \/ \E t \in Threads : EqLock(t) /\ UNCHANGED <<ghost, erfstate>>
    \/ \E t \in Threads : FlowEnqueue(t) /\ UNCHANGED <<ghost, erfstate>>
    \/ \E t \in Threads : EqUnlock(t) /\ UNCHANGED <<ghost, erfstate>>
    \/ \E t \in Threads : DqLock(t) /\ UNCHANGED <<ghost, erfstate>>
    \/ \E t \in Threads : DqBody(t) /\ UNCHANGED <<ghost, erfstate>>
    \/ \E t \in Threads :
           /\ DqUnlock(t)
           /\ outs' = IF frame[t].f = NULL THEN outs
                      ELSE [outs EXCEPT ![frame[t].q] = Append(@, frame[t].f)]
           /\ UNCHANGED <<ncalls, ins, log, arrival, erfstate>>

SpecFifo == Init /\ [][NextFifo]_vars

\* ------------------------------------------------ all calls, one at a time
\* log holds the last call: its arguments, the heap it started from (pre)
\* and, for FlowDequeue, the value it returned (ret).  When the call is
\* FlowRequeue(f, B, A, .) and the call before it was FlowRequeue(f, A, B, .)
\* for distinct queues A and B, back holds the heap that earlier call
\* started from.  When the call is FlowDequeue(q) and the call before it was a
\* FlowRequeue into q, moved holds the record of that FlowRequeue.
Snapshot == [top |-> top, bot |-> bot, len |-> len, lnext |-> lnext, lprev |-> lprev]
Returns(op, f, srcq, dstq) ==
    /\ log # <<>>
    /\ op = "requeue" /\ log[1].op = "requeue"
    /\ log[1].f = f
    /\ log[1].srcq # NULL /\ log[1].srcq # log[1].dstq
    /\ srcq = log[1].dstq /\ dstq = log[1].srcq
JustMoved(op, q) ==
    IF op = "dequeue" /\ log # <<>> /\ log[1].op = "requeue" /\ log[1].dstq = q
    THEN log[1].f
    ELSE NULL
Entry(op, f, srcq, dstq, need_srclock, q) ==
    [op |-> op, f |-> f, srcq |-> srcq, dstq |-> dstq,
     need_srclock |-> need_srclock, q |-> q, ret |-> NULL, pre |-> Snapshot,
     back |-> IF Returns(op, f, srcq, dstq) THEN <<log[1].pre>> ELSE <<>>,
     moved |-> JustMoved(op, q)]
Logged(e) ==
    /\ log' = <<e>>
    /\ UNCHANGED <<ncalls, ins, outs, arrival, erfstate>>

NextSeq ==
    \/ \E t \in {Caller}, q \in Queues, f \in Flows :
           /\ AllIdle
           /\ CallEnqueue(t, q, f)
           /\ Logged(Entry("enqueue", f, NULL, NULL, 0, q))
    \/ \E t \in {Caller}, q \in Queues :
           /\ AllIdle
           /\ CallDequeue(t, q)
           /\ Logged(Entry("dequeue", NULL, NULL, NULL, 0, q))
    \/ \E t \in {Caller}, f \in Flows, srcq \in QueueOrNull, dstq \in Queues,
          need_srclock \in {0, 1} :
           /\ AllIdle
           /\ CallRequeue(t, f, srcq, dstq, need_srclock)
           /\ Logged(Entry("requeue", f, srcq, dstq, need_srclock, NULL))
    \/ \E t \in Threads : EqLock(t) /\ UNCHANGED <<ghost, erfstate>>
    \/ \E t \in Threads : FlowEnqueue(t) /\ UNCHANGED <<ghost, erfstate>>
    \/ \E t \in Threads : EqUnlock(t) /\ UNCHANGED <<ghost, erfstate>>
    \/ \E t \in Threads : DqLock(t) /\ UNCHANGED <<ghost, erfstate>>
    \/ \E t \in Threads : DqBody(t) /\ UNCHANGED <<ghost, erfstate>>
    \/ \E t \in Threads :
           /\ DqUnlock(t)
           /\ log' = [log EXCEPT ![1].ret = frame[t].f]
           /\ UNCHANGED <<ncalls, ins, outs, arrival, erfstate>>
    \/ \E t \in Threads : RqCallerLock(t) /\ UNCHANGED <<ghost, erfstate>>
    \/ \E t \in Threads : RqSrcLock(t) /\ UNCHANGED <<ghost, erfstate>>
    \/ \E t \in Threads : RqUnlink(t) /\ UNCHANGED <<ghost, erfstate>>
    \/ \E t \in Threads : RqSrcUnlock(t) /\ UNCHANGED <<ghost, erfstate>>
    \/ \E t \in Threads : RqDstLock(t) /\ UNCHANGED <<ghost, erfstate>>
    \/ \E t \in Threads : RqAppend(t) /\ UNCHANGED <<ghost, erfstate>>
    \/ \E t \in Threads : RqDstUnlock(t) /\ UNCHANGED <<ghost, erfstate>>
    \/ \E t \in Threads : RqCallerUnlock(t) /\ UNCHANGED <<ghost, erfstate>>

SpecSeq == Init /\ [][NextSeq]_vars

\* ------------------------------------- arrivals, all calls one at a time
\* arrival[q] lists the members of q, the longest resident first, each with
\* the function that made it a member: "insert" for FlowEnqueue, "transfer"
\* for FlowRequeue.  A record enters the list when it is linked and leaves
\* it when it is unlinked.
Arrived(q, f, by) ==
    arrival' = [arrival EXCEPT ![q] = Append(@, [f |-> f, by |-> by])]
Left(q, f) ==
    arrival' = [arrival EXCEPT ![q] = SelectSeq(@, LAMBDA e : e.f # f)]

NextMix ==
    \/ \E t \in {Caller}, q \in Queues, f \in Flows :
           /\ AllIdle
           /\ CallEnqueue(t, q, f)
           /\ UNCHANGED <<ghost, erfstate>>
    \/ \E t \in {Caller}, q \in Queues :
           /\ AllIdle
           /\ CallDequeue(t, q)
           /\ UNCHANGED <<ghost, erfstate>>
    \/ \E t \in {Caller}, f \in Flows, srcq \in QueueOrNull, dstq \in Queues,
          need_srclock \in {0, 1} :
           /\ AllIdle
           /\ CallRequeue(t, f, srcq, dstq, need_srclock)
           /\ UNCHANGED <<ghost, erfstate>>
    \/ \E t \in Threads : EqLock(t) /\ UNCHANGED <<ghost, erfstate>>
    \/ \E t \in Threads :
           /\ FlowEnqueue(t)
           /\ Arrived(frame[t].q, frame[t].f, "insert")
           /\ UNCHANGED <<ncalls, ins, outs, log, erfstate>>
    \/ \E t \in Threads : EqUnlock(t) /\ UNCHANGED <<ghost, erfstate>>
    \/ \E t \in Threads : DqLock(t) /\ UNCHANGED <<ghost, erfstate>>
    \/ \E t \in Threads :
           /\ DqBody(t)
           /\ Left(frame[t].q, bot[frame[t].q])
           /\ UNCHANGED <<ncalls, ins, outs, log, erfstate>>
    \/ \E t \in Threads : DqUnlock(t) /\ UNCHANGED <<ghost, erfstate>>
    \/ \E t \in Threads : RqCallerLock(t) /\ UNCHANGED <<ghost, erfstate>>
    \/ \E t \in Threads : RqSrcLock(t) /\ UNCHANGED <<ghost, erfstate>>
    \/ \E t \in Threads :
           /\ RqUnlink(t)
           /\ Left(frame[t].srcq, frame[t].f)
           /\ UNCHANGED <<ncalls, ins, outs, log, erfstate>>
    \/ \E t \in Threads : RqSrcUnlock(t) /\ UNCHANGED <<ghost, erfstate>>
    \/ \E t \in Threads : RqDstLock(t) /\ UNCHANGED <<ghost, erfstate>>
    \/ \E t \in Threads :
           /\ RqAppend(t)
           /\ Arrived(frame[t].dstq, frame[t].f, "transfer")
           /\ UNCHANGED <<ncalls, ins, outs, log, erfstate>>
    \/ \E t \in Threads : RqDstUnlock(t) /\ UNCHANGED <<ghost, erfstate>>
    \/ \E t \in Threads : RqCallerUnlock(t) /\ UNCHANGED <<ghost, erfstate>>

SpecMix == Init /\ [][NextMix]_vars

\* ================================================ src/src/source-erf-file.c
\* The ERF file reader.  erf is the state of the stream etv->erf ("open",
\* "eof" or "error"), etv the counters pkts and bytes, p the Packet, rx the
\* call of ReceiveErfFile in progress or last returned: where it is (at), the
\* header it read, its locals rlen and wlen, the size it asks fread for
\* (want), the counters when it was called (pre) and what it reported: the
\* return code, the message logged and whether EngineStop was called.  cause
\* is what really happened.  seen collects, over successive runs, every
\* cause together with what was reported for it.
DAG_TYPE_ETH == 2
DagRecordSize == 18

queuestate == <<heap, mutex_q, pc, frame, ghost>>

\* size_t is 64 bits wide: four 16-bit limbs, the most significant first.
Limb == 256 * 256
\* (size_t)n for an int n >= 0.
SizeT(n) == <<0, 0, n \div Limb, n % Limb>>
\* a - b in size_t, limb by limb with borrow; the borrow out of the top limb
\* is lost, which is the wrap modulo 2^64.
SizeSub(a, b) ==
    LET d4 == a[4] - b[4]
        d3 == a[3] - b[3] - (IF d4 < 0 THEN 1 ELSE 0)
        d2 == a[2] - b[2] - (IF d3 < 0 THEN 1 ELSE 0)
        d1 == a[1] - b[1] - (IF d2 < 0 THEN 1 ELSE 0)
        Wrap(d) == IF d < 0 THEN d + Limb ELSE d
    IN  <<Wrap(d1), Wrap(d2), Wrap(d3), Wrap(d4)>>

\* ntohs of a 16-bit field given as its two bytes in file order.
Ntohs(b) == b[1] * 256 + b[2]

\* The headers a file may hold: rlen and wlen as their bytes in file order,
\* ts as its upper 32 bits (sec) and the two halves of its lower 32 bits.
RlenBytes == {<<0, 16>>, <<0, 18>>, <<0, 20>>, <<1, 0>>}
WlenBytes == {<<0, 3>>, <<0, 4>>, <<0, 64>>}
Types == {DAG_TYPE_ETH, DAG_TYPE_ETH + 1}
Stamps == {[sec |-> 0, frh |-> 0, frl |-> 0],
           [sec |-> 1, frh |-> 32768, frl |-> 0],
           [sec |-> 1, frh |-> 65535, frl |-> 65535]}

\* "Convert ERF time to timeval": tv_sec = ts >> 32 and tv_usec =
\* ((ts & 0xffffffff) * 1000000 + 0x80000000) >> 32, with the carry into
\* tv_sec.  1000000 = 15625 * 64, so tv_usec = (frac * 15625 + 2^25) >> 26,
\* computed on the halves of frac.
ErfTimeToTimeval(ts) ==
    LET usec == (ts.frh * 15625 + (ts.frl * 15625 + 33554432) \div Limb) \div 1024
    IN  IF usec >= 1000000
        THEN [sec |-> ts.sec + 1, usec |-> usec - 1000000]
        ELSE [sec |-> ts.sec, usec |-> usec]

\* The counting with "etv->bytes += wlen - 4".
CountPacketTrimmed(e, wlen) == [pkts |-> e.pkts + 1, bytes |-> e.bytes + (wlen - 4)]

\* etv->pkts++; etv->bytes += wlen;
CountPacket(e, wlen) == [pkts |-> e.pkts + 1, bytes |-> e.bytes + wlen]

EofOrErrorMsg == "End of ERF file reached or an error occurred."
TypeMsg == "DAG record type not implemented."

\* The call returns: what it reports, and the cause it reports it for.
ErfReturn(cause, ret, msg, stop) ==
    /\ rx' = [rx EXCEPT !.at = "returned", !.cause = cause, !.ret = ret,
                        !.msg = msg, !.stop = stop]
    /\ seen' = seen \cup {[cause |-> cause, ret |-> ret, msg |-> msg, stop |-> stop]}

\* What fread(&dr, sizeof(DagRecord), 1, erf) can yield.
HeaderReads == IF erf = "open" THEN {"record", "eof", "error"} ELSE {erf}
\* What fread(data, want, 1, erf) can yield: nothing is read and 0 returned
\* when want is 0; a size of 2^32 or more is beyond what is left of any file.
PayloadReads(want) ==
    IF want = SizeT(0) THEN {"empty"}
    ELSE IF want[1] = 0 /\ want[2] = 0 THEN {"full", "eof", "error"}
    ELSE {"eof", "error"}

\* ReceiveErfFileThreadInit for a further run: a stream just opened and
\* counters cleared by memset.
ReceiveErfFileThreadInit ==
    /\ rx.at = "returned" /\ rx.ret = "TM_ECODE_FAILED"
    /\ erf' = "open"
    /\ etv' = [pkts |-> 0, bytes |-> 0]
    /\ p' = [pktlen |-> 0, datalink |-> "none", ts |-> [sec |-> 0, usec |-> 0]]
    /\ rx' = [rx EXCEPT !.at = "idle", !.cause = "none", !.ret = "none", !.msg = "",
                        !.stop = FALSE, !.pre = etv']
    /\ UNCHANGED <<seen, queuestate>>

\* The read of the header, and rlen, wlen and the size of the payload read.
ReceiveErfFile_Header ==
    /\ rx.at \in {"idle", "returned"}
    /\ etv.pkts < MaxRecords
    /\ \E r \in HeaderReads :
           IF r # "record"
           THEN /\ erf' = r
                /\ rx' = [rx EXCEPT !.at = "returned", !.cause = r,
                                    !.ret = "TM_ECODE_FAILED", !.msg = EofOrErrorMsg,
                                    !.stop = TRUE, !.pre = etv]
                /\ seen' = seen \cup {[cause |-> r, ret |-> "TM_ECODE_FAILED",
                                       msg |-> EofOrErrorMsg, stop |-> TRUE]}
           ELSE /\ \E rb \in RlenBytes, wb \in WlenBytes, ty \in Types, ts \in Stamps :
                       rx' = [at |-> "payload", cause |-> "none", ret |-> "none",
                              msg |-> "", stop |-> FALSE, type |-> ty, ts |-> ts,
                              rlen |-> Ntohs(rb), wlen |-> Ntohs(wb),
                              want |-> SizeSub(SizeT(Ntohs(rb)), SizeT(DagRecordSize)),
                              pre |-> etv]
                /\ UNCHANGED <<erf, seen>>
    /\ UNCHANGED <<etv, p, queuestate>>

\* The read of the payload into the packet's data.
ReceiveErfFile_Payload ==
    /\ rx.at = "payload"
    /\ \E r \in PayloadReads(rx.want) :
           IF r = "full"
           THEN /\ rx' = [rx EXCEPT !.at = "decode"]
                /\ UNCHANGED <<erf, seen>>
           ELSE /\ erf' = (IF r = "empty" THEN erf ELSE r)
                /\ ErfReturn(r, "TM_ECODE_FAILED", EofOrErrorMsg, TRUE)
    /\ UNCHANGED <<etv, p, queuestate>>

\* The test of the record type, the packet's length and time, the counters.
ReceiveErfFile_Deliver ==
    /\ rx.at = "decode"
    /\ IF rx.type # DAG_TYPE_ETH
       THEN /\ ErfReturn("type", "TM_ECODE_FAILED", TypeMsg, FALSE)
            /\ UNCHANGED <<etv, p>>
       ELSE /\ p' = [pktlen |-> rx.wlen - 4, datalink |-> "LINKTYPE_ETHERNET",
                     ts |-> ErfTimeToTimeval(rx.ts)]
            /\ etv' = CountPacket(etv, rx.wlen)
            /\ ErfReturn("frame", "TM_ECODE_OK", "", FALSE)
    /\ UNCHANGED <<erf, queuestate>>

NextErf ==
    \/ ReceiveErfFileThreadInit
    \/ ReceiveErfFile_Header
    \/ ReceiveErfFile_Payload
    \/ ReceiveErfFile_Deliver

SpecErf == Init /\ [][NextErf]_vars

\* ========================================================== the properties
FwdOf(h, q) == Walk(h.lnext, h.top[q], NumFlows + 1)
BwdOf(h, q) == Walk(h.lprev, h.bot[q], NumFlows + 1)
Without(s, f) == SelectSeq(s, LAMBDA x : x # f)
IsPrefix(a, b) == Len(a) <= Len(b) /\ SubSeq(b, 1, Len(a)) = a
Last(s) == s[Len(s)]
QueuesHolding(f) == {q \in Queues : InQueue(f, q)}

\* C1 FIFO law: the records FlowDequeue(q) has returned are, in order, the
\* first records given to FlowEnqueue(q, .); at rest the queue holds the
\* remaining ones, oldest at bot, and when all have been returned len is 0
\* and top and bot are NULL; NULL is returned only when none remains.
C1_Fifo ==
    \A q \in Queues :
        /\ IsPrefix(outs[q], ins[q])
        /\ \A t \in Threads :
               pc[t] = "dq_unlock" /\ frame[t].q = q /\ frame[t].f = NULL
                   => Len(outs[q]) = Len(ins[q])
        /\ AllIdle =>
               /\ Bwd(q) = SubSeq(ins[q], Len(outs[q]) + 1, Len(ins[q]))
               /\ len[q] = Len(ins[q]) - Len(outs[q])
               /\ Len(outs[q]) = Len(ins[q]) => top[q] = NULL /\ bot[q] = NULL

C1_Witness ==
    \E q \in Queues :
        /\ AllIdle
        /\ ins[q] = <<1, 2, 3>> /\ outs[q] = <<1, 2, 3>>
        /\ len[q] = 0 /\ top[q] = NULL /\ bot[q] = NULL

\* C2 single membership: when no FlowRequeue is in progress, every record
\* is linked into at most one queue.
C2_SingleMembership ==
    AllIdle => \A f \in Flows : Cardinality(QueuesHolding(f)) <= 1

\* A FlowRequeue of thread t between two distinct queues is in progress.
RqPcs == {"rq_srclock", "rq_unlink", "rq_srcunlock", "rq_dstlock", "rq_append",
          "rq_dstunlock"}
Moving(t) ==
    /\ pc[t] \in RqPcs
    /\ frame[t].srcq # NULL
    /\ frame[t].srcq # frame[t].dstq
\* Another thread can take the locks of both queues of t's FlowRequeue and
\* read them.
Observable(t) ==
    /\ mutex_q[frame[t].srcq] = FREE
    /\ mutex_q[frame[t].dstq] = FREE
InSrc(t) == InQueue(frame[t].f, frame[t].srcq)
InDst(t) == InQueue(frame[t].f, frame[t].dstq)

\* C3 atomic move, as claimed: an observer holding both locks while the
\* move is in progress sees the record in exactly one of the two queues.
C3_Atomic ==
    \A t \in Threads :
        Moving(t) /\ Observable(t) => (InSrc(t) /\ ~InDst(t)) \/ (~InSrc(t) /\ InDst(t))

\* C3 amended: such an observer never sees the record in both queues; it
\* sees it in neither only when need_srclock = 1, after the source lock was
\* released and before the destination lock is taken.
C3_NeverBoth ==
    \A t \in Threads :
        Moving(t) /\ Observable(t) =>
            /\ ~(InSrc(t) /\ InDst(t))
            /\ (~InSrc(t) /\ ~InDst(t)) =>
                   frame[t].need_srclock = 1 /\ pc[t] = "rq_dstlock"

C3_Witness ==
    \E t \in Threads :
        /\ Moving(t) /\ Observable(t)
        /\ ~InSrc(t) /\ ~InDst(t)
        /\ frame[t].need_srclock = 1 /\ pc[t] = "rq_dstlock"

\* The lock thread t is about to take, or NULL when its next step takes none.
WaitsFor(t) ==
    CASE pc[t] \in {"eq_lock", "dq_lock"} -> frame[t].q
      [] pc[t] = "rq_callerlock" -> frame[t].srcq
      [] pc[t] = "rq_srclock" /\ SrcLockNeeded(frame[t]) -> frame[t].srcq
      [] pc[t] = "rq_dstlock" /\ DstLockNeeded(frame[t]) -> frame[t].dstq
      [] OTHER -> NULL
Blocked(t) == WaitsFor(t) # NULL /\ mutex_q[WaitsFor(t)] # FREE

\* C4 deadlock freedom: the threads are never all blocked waiting for a
\* queue lock.
C4_NoDeadlock == ~(\A t \in Threads : Blocked(t))

\* The part of FlowRequeue that requests and holds the destination lock.
DstPcs == {"rq_dstlock", "rq_append", "rq_dstunlock"}

\* C5 lock ordering, as claimed: a thread in FlowRequeue between distinct
\* queues does not hold the source lock when it requests or holds the
\* destination lock.
C5_SrcReleasedFirst ==
    \A t \in Threads :
        Moving(t) /\ pc[t] \in DstPcs => mutex_q[frame[t].srcq] # t

\* C5 amended: that holds when need_srclock = 1; with need_srclock = 0 the
\* thread still holds the source lock, which its caller took, while it
\* requests and holds the destination lock.
C5_SrcReleasedWhenTaken ==
    \A t \in Threads :
        Moving(t) /\ pc[t] \in DstPcs =>
            IF frame[t].need_srclock = 1
            THEN mutex_q[frame[t].srcq] # t
            ELSE mutex_q[frame[t].srcq] = t

C5_Witness ==
    \E t, u \in Threads :
        /\ Moving(t) /\ pc[t] = "rq_append" /\ frame[t].need_srclock = 1
        /\ mutex_q[frame[t].dstq] = t
        /\ mutex_q[frame[t].srcq] = u /\ u # t

\* A queue at rest is well formed: the ends have no outer link, and len is
\* the number of records met from top along lnext and from bot along lprev.
Structural(q) ==
    /\ top[q] # NULL => lprev[top[q]] = NULL
    /\ bot[q] # NULL => lnext[bot[q]] = NULL
    /\ len[q] = Len(Fwd(q))
    /\ len[q] = Len(Bwd(q))

\* C6 structural invariant: at rest every queue is well formed.
C6_Structural == AllIdle => \A q \in Queues : Structural(q)

\* A queue of three records, the last of them put there by FlowRequeue.
C6_Witness ==
    /\ AllIdle
    /\ log # <<>>
    /\ Last(log).op = "requeue"
    /\ \E q \in Queues : len[q] = 3 /\ Len(Fwd(q)) = 3 /\ Last(log).dstq = q

\* C7 emptiness agreement: at rest top is NULL iff bot is NULL iff len is 0.
C7_Emptiness ==
    AllIdle => \A q \in Queues :
        /\ (top[q] = NULL) <=> (bot[q] = NULL)
        /\ (bot[q] = NULL) <=> (len[q] = 0)

\* The sole record of a queue has just been removed by FlowRequeue.
C7_Witness ==
    /\ AllIdle
    /\ log # <<>>
    /\ Last(log).op = "requeue"
    /\ Last(log).srcq # NULL /\ Last(log).srcq # Last(log).dstq
    /\ Last(log).pre.len[Last(log).srcq] = 1
    /\ len[Last(log).srcq] = 0 /\ top[Last(log).srcq] = NULL

\* The last two calls were FlowRequeue(f, A, B, .) and FlowRequeue(f, B, A, .)
\* for distinct queues A and B.
RoundTrip ==
    /\ AllIdle
    /\ log # <<>>
    /\ Last(log).back # <<>>

\* C9 round trip: afterwards f is in A only, both len are what they were,
\* and B is as it was.
C9_RoundTrip ==
    RoundTrip =>
        LET f == Last(log).f
            A == Last(log).dstq
            B == Last(log).srcq
            h == Last(log).back[1]
        IN  /\ QueuesHolding(f) = {A}
            /\ len[A] = h.len[A]
            /\ len[B] = h.len[B]
            /\ Fwd(B) = FwdOf(h, B)
            /\ Bwd(B) = BwdOf(h, B)

\* f was the top of the two records of A, and B held one record.
C9_Witness ==
    /\ RoundTrip
    /\ Last(log).back[1].len[Last(log).dstq] = 2
    /\ Last(log).back[1].top[Last(log).dstq] = Last(log).f
    /\ Last(log).back[1].len[Last(log).srcq] = 1

\* The last call was FlowRequeue(f, A, B, .) for distinct queues A and B.
MovedOut ==
    /\ AllIdle
    /\ log # <<>>
    /\ Last(log).op = "requeue"
    /\ Last(log).srcq # NULL /\ Last(log).srcq # Last(log).dstq

\* C10 removal from any position: afterwards A holds the records it held
\* without f, in the same order in both directions, A's len is one less,
\* and a B that was empty holds f alone.
C10_Removal ==
    MovedOut =>
        LET f == Last(log).f
            A == Last(log).srcq
            B == Last(log).dstq
            h == Last(log).pre
        IN  /\ Fwd(A) = Without(FwdOf(h, A), f)
            /\ Bwd(A) = Reverse(Fwd(A))
            /\ len[A] = h.len[A] - 1
            /\ top[A] = (IF Fwd(A) = <<>> THEN NULL ELSE Fwd(A)[1])
            /\ bot[A] = (IF Fwd(A) = <<>> THEN NULL ELSE Last(Fwd(A)))
            /\ h.len[B] = 0 => top[B] = f /\ bot[B] = f /\ len[B] = 1

\* A = r1-r2-r3 and r2 goes to the empty B.
C10_Witness ==
    /\ MovedOut
    /\ Len(FwdOf(Last(log).pre, Last(log).srcq)) = 3
    /\ FwdOf(Last(log).pre, Last(log).srcq)[2] = Last(log).f
    /\ Last(log).pre.len[Last(log).dstq] = 0
    /\ len[Last(log).srcq] = 2 /\ len[Last(log).dstq] = 1

\* C8 empty poll: FlowDequeue on a queue whose bot is NULL returns NULL and
\* leaves the heap as it was; it returns with the queue's lock released;
\* and once it holds the lock none of its steps waits for anything.
C8_EmptyPoll ==
    /\ [](\A t \in Threads :
             pc[t] \in {"dq_body", "dq_unlock"} =>
                 /\ mutex_q[frame[t].q] = t
                 /\ ENABLED (DqBody(t) \/ DqUnlock(t)))
    /\ [][\A t \in Threads :
             pc[t] = "dq_body" /\ bot[frame[t].q] = NULL /\ pc'[t] # "dq_body" =>
                 /\ pc'[t] = "dq_unlock"
                 /\ frame'[t].f = NULL
                 /\ UNCHANGED heap]_vars
    /\ [][\A t \in Threads :
             pc[t] = "dq_unlock" /\ pc'[t] # "dq_unlock" =>
                 /\ pc'[t] = "idle"
                 /\ mutex_q'[frame[t].q] = FREE]_vars

\* An empty poll about to return while another call is in progress.
C8_Witness ==
    \E t, u \in Threads :
        /\ pc[t] = "dq_unlock" /\ frame[t].f = NULL
        /\ bot[frame[t].q] = NULL
        /\ u # t /\ pc[u] # "idle"

\* The members of q that FlowEnqueue, and that FlowRequeue, put there, the
\* longest resident first.
FlowsOf(s) == [i \in 1 .. Len(s) |-> s[i].f]
Inserted(q) == FlowsOf(SelectSeq(arrival[q], LAMBDA e : e.by = "insert"))
Transferred(q) == FlowsOf(SelectSeq(arrival[q], LAMBDA e : e.by = "transfer"))

\* C11 end roles, as claimed: at rest, top of a non-empty queue is the
\* record that became a member last and bot the one that has been a member
\* the longest, however the records entered.
C11_EndRoles ==
    AllIdle => \A q \in Queues :
        arrival[q] # <<>> =>
            /\ top[q] = Last(arrival[q]).f
            /\ bot[q] = arrival[q][1].f

\* C11 amended: at rest, from top to bot a queue holds the records that
\* FlowEnqueue put there, the last inserted first, and then the records that
\* FlowRequeue put there, the last transferred at bot.  So top is the last
\* inserted record when one is a member, and bot, the record FlowDequeue
\* returns next, is the last transferred record when one is a member, and the
\* longest resident only when every member entered by FlowEnqueue.
C11_EndRolesByEntry ==
    AllIdle => \A q \in Queues :
        /\ Fwd(q) = Reverse(Inserted(q)) \o Transferred(q)
        /\ Inserted(q) # <<>> => top[q] = Last(Inserted(q))
        /\ Transferred(q) # <<>> => bot[q] = Last(Transferred(q))
        /\ Transferred(q) = <<>> /\ arrival[q] # <<>> => bot[q] = arrival[q][1].f

\* Inserted, then transferred in, then inserted: bot is the middle arrival.
C11_Witness ==
    /\ AllIdle
    /\ \E q \in Queues :
           /\ Len(arrival[q]) = 3
           /\ arrival[q][1].by = "insert"
           /\ arrival[q][2].by = "transfer"
           /\ arrival[q][3].by = "insert"
           /\ bot[q] = arrival[q][2].f
           /\ top[q] = arrival[q][3].f

\* The last call was a FlowRequeue, and it has returned.
AfterRequeue ==
    /\ AllIdle
    /\ log # <<>>
    /\ Last(log).op = "requeue"
\* The last call was a FlowDequeue of the queue that the call before it
\* moved a record into, and it has returned.
AfterRequeueThenDequeue ==
    /\ AllIdle
    /\ log # <<>>
    /\ Last(log).op = "dequeue"
    /\ Last(log).moved # NULL

\* C12 transfer placement: when FlowRequeue(f, srcq, dstq, .) has returned, f
\* is dstq's bot, its lnext is NULL, its lprev is the record that was dstq's
\* bot when f was appended and that record's lnext is f; if dstq held no
\* other record f is also its top; dstq's len is one more than before, or
\* the same when srcq is dstq; and a FlowDequeue(dstq) called next returns f.
C12_Placement ==
    /\ AfterRequeue =>
           LET f == Last(log).f
               A == Last(log).srcq
               B == Last(log).dstq
               h == Last(log).pre
               others == Without(FwdOf(h, B), f)
               prevbot == IF others = <<>> THEN NULL ELSE Last(others)
           IN  /\ bot[B] = f
               /\ lnext[f] = NULL
               /\ lprev[f] = prevbot
               /\ prevbot # NULL => lnext[prevbot] = f
               /\ others = <<>> => top[B] = f
               /\ len[B] = h.len[B] + (IF A = B THEN 0 ELSE 1)
    /\ AfterRequeueThenDequeue => Last(log).ret = Last(log).moved

\* A record moved into a queue of two is returned by the next FlowDequeue,
\* ahead of the two records that were there before it.
C12_Witness ==
    /\ AfterRequeueThenDequeue
    /\ Last(log).ret = Last(log).moved
    /\ Last(log).pre.len[Last(log).q] = 3
    /\ len[Last(log).q] = 2

\* A FlowRequeue of thread t within one queue is in progress.
MovingWithin(t) ==
    /\ pc[t] \in RqPcs
    /\ frame[t].srcq # NULL
    /\ frame[t].srcq = frame[t].dstq
\* The part of FlowRequeue from the unlink to the unlock after the append.
HoldPcs == {"rq_unlink", "rq_srcunlock", "rq_dstlock", "rq_append", "rq_dstunlock"}

\* C13 same-queue transfer locking: a thread in FlowRequeue(f, A, A, .) never
\* requests A's lock while it holds it, holds A's lock from before the unlink
\* until after the append, and f is absent from A only while it holds the lock.
C13_SameQueueLocking ==
    \A t \in Threads :
        MovingWithin(t) =>
            /\ WaitsFor(t) # NULL => mutex_q[WaitsFor(t)] # t
            /\ pc[t] \in HoldPcs => mutex_q[frame[t].srcq] = t
            /\ ~InQueue(frame[t].f, frame[t].srcq) => mutex_q[frame[t].srcq] = t

\* The record is unlinked and the thread is where the destination lock would
\* be taken, while another thread waits for the queue's lock.
C13_Witness ==
    \E t, u \in Threads :
        /\ MovingWithin(t) /\ pc[t] = "rq_dstlock"
        /\ ~InQueue(frame[t].f, frame[t].srcq)
        /\ mutex_q[frame[t].srcq] = t
        /\ u # t /\ pc[u] = "dq_lock" /\ frame[u].q = frame[t].srcq

\* Thread t's FlowRequeue returns in this step.
RequeueReturns(t) == pc[t] = "rq_dstunlock" /\ pc'[t] # "rq_dstunlock"

\* C14 lock state on return: FlowRequeue unlocks only a lock its thread
\* holds; when it returns its thread does not hold dstq's lock, nor srcq's
\* lock if need_srclock = 1; with need_srclock = 0 its thread still holds
\* srcq's lock if srcq is not dstq, and no longer holds it if srcq is dstq.
C14_LocksOnReturn ==
    /\ [](\A t \in Threads :
             /\ pc[t] = "rq_srcunlock" /\ SrcUnlockNeeded(frame[t])
                    => mutex_q[frame[t].srcq] = t
             /\ pc[t] = "rq_dstunlock" => mutex_q[frame[t].dstq] = t)
    /\ [][\A t \in Threads :
             RequeueReturns(t) =>
                 /\ mutex_q'[frame[t].dstq] # t
                 /\ frame[t].srcq # NULL /\ frame[t].need_srclock = 1
                        => mutex_q'[frame[t].srcq] # t
                 /\ frame[t].srcq # NULL /\ frame[t].need_srclock = 0
                        => IF frame[t].srcq # frame[t].dstq
                           THEN mutex_q'[frame[t].srcq] = t
                           ELSE mutex_q'[frame[t].srcq] = FREE]_vars

\* FlowRequeue(f, A, B, 0) has returned: its caller still holds A's lock and
\* another thread has already taken B's.
C14_Witness ==
    \E t, u \in Threads :
        /\ pc[t] = "rq_callerunlock"
        /\ mutex_q[frame[t].srcq] = t
        /\ InQueue(frame[t].f, frame[t].dstq)
        /\ u # t /\ mutex_q[frame[t].dstq] = u

\* Thread t takes the step; the step writes a field of queue q, or a link
\* of a record that is a member of q before or after the step.
Executing(t) == pc'[t] # pc[t]
WritesQueue(q) ==
    \/ top'[q] # top[q]
    \/ bot'[q] # bot[q]
    \/ len'[q] # len[q]
    \/ \E r \in Flows :
           /\ lnext'[r] # lnext[r] \/ lprev'[r] # lprev[r]
           /\ InQueue(r, q) \/ InQueue(r, q)'

\* C15 mutation only under lock: a step that writes top, bot or len of a
\* queue, or a link of a member of it, is taken by a thread that holds the
\* queue's lock, its own or the one its caller took; and FlowEnqueue itself
\* takes and releases no lock.
C15_MutationUnderLock ==
    /\ [][\A q \in Queues :
             WritesQueue(q) => \E t \in Threads : Executing(t) /\ mutex_q[q] = t]_vars
    /\ [][\A t \in Threads :
             pc[t] = "eq_body" /\ Executing(t) => mutex_q' = mutex_q]_vars

\* A thread is about to unlink under the lock its caller took, and another
\* thread waits for that lock.
C15_Witness ==
    \E t, u \in Threads :
        /\ pc[t] = "rq_unlink" /\ frame[t].need_srclock = 0
        /\ mutex_q[frame[t].srcq] = t
        /\ len[frame[t].srcq] = 2
        /\ u # t /\ WaitsFor(u) = frame[t].srcq

CleanLinks(f) == lnext[f] = NULL /\ lprev[f] = NULL
\* The part of FlowRequeue after the unlink and before the append.
UnlinkedPcs == {"rq_srcunlock", "rq_dstlock", "rq_append"}

\* C16 unowned records have clean links: a record linked into no queue has
\* lnext and lprev NULL; so has the record FlowDequeue is about to return;
\* and so has the record FlowRequeue has unlinked, from before the source
\* unlock, when the source lock is still held, until the append.
C16_CleanLinks ==
    /\ \A f \in Flows : IsHolder(f, NULL) => CleanLinks(f)
    /\ \A t \in Threads :
           /\ pc[t] = "dq_unlock" /\ frame[t].f # NULL => CleanLinks(frame[t].f)
           /\ pc[t] \in UnlinkedPcs /\ frame[t].srcq # NULL =>
                  /\ CleanLinks(frame[t].f)
                  /\ IsHolder(frame[t].f, NULL)
           /\ pc[t] = "rq_srcunlock" => mutex_q[frame[t].srcq] = t

\* One record of three has been unlinked and the source lock, taken by
\* FlowRequeue, is not yet released.
C16_Witness ==
    \E t \in Threads :
        /\ pc[t] = "rq_srcunlock" /\ SrcUnlockNeeded(frame[t])
        /\ mutex_q[frame[t].srcq] = t
        /\ CleanLinks(frame[t].f)
        /\ len[frame[t].srcq] = 2

\* C17 length accounting under a FlowDequeue / FlowRequeue race: once the
\* calls have returned, len of every queue is the number of records linked
\* in it and is not below zero, and no record that FlowDequeue returned is
\* linked into a queue.
C17_PollTransferRace ==
    AllIdle =>
        /\ \A q \in Queues : len[q] >= 0 /\ len[q] = Len(Fwd(q))
        /\ \A f \in Polled : IsHolder(f, NULL)

\* The last call was FlowRequeue(f, A, A, .), and it has returned.
MovedWithin ==
    /\ AfterRequeue
    /\ Last(log).srcq # NULL
    /\ Last(log).srcq = Last(log).dstq

\* C18 same-queue transfer: FlowRequeue(f, A, A, .) leaves A with the same
\* len and the same members, f at bot and the other members in the order
\* they had, in both directions; it leaves every other queue as it was; and
\* called for a record that is already bot, as after a first such call, it
\* leaves the whole heap as it was.
C18_SameQueueEffect ==
    MovedWithin =>
        LET f == Last(log).f
            A == Last(log).srcq
            h == Last(log).pre
        IN  /\ len[A] = h.len[A]
            /\ Range(Fwd(A)) = Range(FwdOf(h, A))
            /\ Fwd(A) = Append(Without(FwdOf(h, A), f), f)
            /\ Bwd(A) = Reverse(Fwd(A))
            /\ bot[A] = f
            /\ \A q \in Queues \ {A} :
                   /\ Fwd(q) = FwdOf(h, q) /\ Bwd(q) = BwdOf(h, q)
                   /\ top[q] = h.top[q] /\ bot[q] = h.bot[q] /\ len[q] = h.len[q]
            /\ h.bot[A] = f => Snapshot = h

\* The top of three records has been moved to bot.
C18_Witness ==
    /\ MovedWithin
    /\ Len(FwdOf(Last(log).pre, Last(log).srcq)) = 3
    /\ Last(log).pre.top[Last(log).srcq] = Last(log).f
    /\ bot[Last(log).srcq] = Last(log).f
    /\ top[Last(log).srcq] # Last(log).f

\* What a caller of ReceiveErfFile can tell from a call.
Reported(e) == <<e.ret, e.msg, e.stop>>
Returned == rx.at = "returned"

\* C19 packet-source outcomes, as claimed: a call delivers a frame (OK, pkts
\* one more, bytes wlen more), reports the end of the stream or signals a read
\* error; the three are reported differently from one another; and a call
\* that fails leaves pkts and bytes as they were.
C19_ThreeOutcomes ==
    /\ Returned => rx.ret \in {"TM_ECODE_OK", "TM_ECODE_FAILED"}
    /\ Returned /\ rx.ret = "TM_ECODE_OK" =>
           etv.pkts = rx.pre.pkts + 1 /\ etv.bytes = rx.pre.bytes + rx.wlen
    /\ Returned /\ rx.ret = "TM_ECODE_FAILED" => etv = rx.pre
    /\ \A a, b \in seen :
           /\ a.cause \in {"frame", "eof", "error"}
           /\ b.cause \in {"frame", "eof", "error"}
           /\ a.cause # b.cause
           => Reported(a) # Reported(b)

\* C19 amended: a call returns TM_ECODE_OK exactly when it delivers a frame,
\* with packet length wlen - 4, the time converted from ts, pkts one more and
\* bytes wlen more; otherwise it returns TM_ECODE_FAILED and leaves pkts and
\* bytes as they were.  The end of the stream, a read error and a record with
\* no payload are reported alike, with one message and EngineStop; a record
\* of another type is reported with its own message and without EngineStop.
C19_TwoCodes ==
    /\ Returned =>
           /\ rx.ret \in {"TM_ECODE_OK", "TM_ECODE_FAILED"}
           /\ rx.ret = "TM_ECODE_OK" <=> rx.cause = "frame"
    /\ Returned /\ rx.ret = "TM_ECODE_OK" =>
           /\ etv.pkts = rx.pre.pkts + 1 /\ etv.bytes = rx.pre.bytes + rx.wlen
           /\ p.pktlen = rx.wlen - 4
           /\ p.ts.usec \in 0 .. 999999
           /\ p.ts.sec \in {rx.ts.sec, rx.ts.sec + 1}
    /\ Returned /\ rx.ret = "TM_ECODE_FAILED" => etv = rx.pre
    /\ \A a \in seen :
           /\ a.cause \in {"eof", "error", "empty"}
                  => Reported(a) = <<"TM_ECODE_FAILED", EofOrErrorMsg, TRUE>>
           /\ a.cause = "type" => Reported(a) = <<"TM_ECODE_FAILED", TypeMsg, FALSE>>
           /\ a.cause = "frame" => Reported(a) = <<"TM_ECODE_OK", "", FALSE>>

\* A frame was delivered, one run ended at the end of the stream and another
\* with a read error, and the two ends were reported alike.
C19_Witness ==
    /\ Returned /\ rx.cause = "frame" /\ etv.pkts = 2
    /\ \E a, b \in seen :
           /\ a.cause = "eof" /\ b.cause = "error"
           /\ Reported(a) = Reported(b)

\* C20 ERF length arithmetic: when ReceiveErfFile is about to read the
\* payload, the size it asks for is rlen minus the size of the header, not
\* below zero and not wrapped, and wlen - 4 is not below zero; the packet
\* length of a delivered frame is not below zero.
C20_LengthsInRange ==
    /\ rx.at = "payload" =>
           /\ rx.rlen - DagRecordSize >= 0
           /\ rx.want[1] = 0 /\ rx.want[2] = 0
           /\ rx.want[3] * Limb + rx.want[4] = rx.rlen - DagRecordSize
           /\ rx.wlen - 4 >= 0
    /\ Returned /\ rx.ret = "TM_ECODE_OK" => p.pktlen >= 0

====
